---------------------------- MODULE Spec2Model ----------------------------
(***************************************************************************)
(* A state-machine model of the streaming chat session of the customer     *)
(* support backend: app/routers/chat.py, websocket_chat, together with the *)
(* database handle it keeps for the lifetime of the connection and the     *)
(* upstream calls it makes (get_embedding, search_similar_chunks and the   *)
(* streamed chat/completions request).                                     *)
(*                                                                         *)
(* One action models one segment of the coroutine between two points at    *)
(* which it can be suspended or a call can raise.  The environment (the    *)
(* client of the websocket, the embedding and generation providers, the    *)
(* database server) is modelled by the inputs the actions draw with \E.    *)
(*                                                                         *)
(* Texts that the code concatenates (the fragments of an answer) are       *)
(* sequences of characters, so that concatenation is real concatenation.   *)
(*                                                                         *)
(* The second part models the vector store, app/services/vector_store.py   *)
(* (store_chunks, search_similar_chunks, delete_document_chunks), as the   *)
(* specification SpecIndex over the vector_chunks table.                   *)
(***************************************************************************)
EXTENDS Naturals, Sequences, FiniteSets

(***************************************************************************)
(* Bounds of the model.                                                    *)
(***************************************************************************)
\* units (frames) the client sends on one connection
MaxTurns == 2
\* lines the generation provider streams on one connection, over all turns
MaxLines == 3
\* rows the vector_chunks table holds at any time
MaxRows == 3
\* documents ingested
MaxDocs == 2
\* largest limit a search is called with
MaxLimit == 2
\* texts in one call of get_embeddings, pieces in the text of one file
MaxTexts == 2
\* uploads that get as far as a Document record, in the step-by-step ingestion
MaxUploads == 1
\* rows of the chat_history table when several connections append to it
MaxAppends == 3

(***************************************************************************)
(* Inputs.                                                                 *)
(***************************************************************************)
\* user ids a token can resolve to
Users == {7}
\* the "message" field of a received unit; "" also stands for a unit without one
Questions == {"q1", "q2"}
Messages == Questions \cup {""}
\* the content of a well-formed streamed delta
Fragments == {<<"x">>, <<"y">>}
\* the content the n-th line of the connection's upstream text carries if it
\* is a well-formed delta: the text alternates, so that two fragments that
\* follow each other differ and two with a skipped line between them are equal
LineContent(n) == IF n % 2 = 1 THEN <<"x">> ELSE <<"y">>
\* what search_similar_chunks can return: (chunk_text, similarity) rows
P1 == [chunk_text |-> "refund", similarity |-> 9]
P2 == [chunk_text |-> "shipping", similarity |-> 8]
Results == {<<>>, <<P1>>, <<P1, P2>>}

\* a line of the upstream stream, by what the loop body does with it
\*   frag      "data: {json}" whose choices[0].delta.content is non-empty
\*   nodata    a line that does not start with "data: " (blank, comment)
\*   badjson   "data: " followed by text json.loads rejects
\*   nocontent valid JSON object with no choices, or an empty content
\*   badshape  valid JSON that is not an object of the expected shape
LineKinds == {"frag", "nodata", "badjson", "nocontent", "badshape"}

VARIABLES
    pc,             \* position of websocket_chat
    websocket,      \* "open" | "closed": the transport, as the peer sees it
    api_key,        \* OPENROUTER_API_KEY is set
    user,           \* the user the token resolved to (0: none)
    db,             \* the connection's SessionLocal(): [open, tx]
    message,        \* the question of the current turn
    similar_chunks, \* the result of the search of the current turn
    prompt,         \* the user prompt of the current turn
    full_response,  \* the answer accumulated in the current turn
    chat_history,   \* the chat_history table: the committed ChatHistory rows
    sent,           \* the signals delivered to the caller, in order
    \* ---- history variables (observations, not program state) ----
    turn,           \* number of units received on this connection
    calls,          \* upstream calls made in the current turn
    produced,       \* fragments the generation stream delivered in this turn
    outcome,        \* how the current turn ended ("active" while it runs)
    fault,          \* the environment made an operation of this turn fail
    hist0,          \* Len(chat_history) when the current turn began
    detected,       \* a send or receive raised because the transport is closed
    late_send,      \* a send was attempted after detected
    lines,          \* upstream lines consumed on this connection
    ended,          \* how the stream ended, from its end to the end of the turn
    \* ---- the vector store (app/services/vector_store.py) ----
    vector_chunks,  \* the vector_chunks table: its rows, in insertion order
    next_document,  \* the id the next Document record gets
    index_call,     \* the last call that wrote to the table and how it ended
    searched,       \* what search_similar_chunks returned, if called since
    deleted,        \* history: documents delete_document_chunks was called for
    \* ---- one call of get_embeddings (app/services/embedding_service.py) ----
    base_url,       \* OPENROUTER_BASE_URL is not empty
    texts,          \* the argument of the call
    requests,       \* history: requests the call has sent to the provider
    embedded,       \* how the call ended and what it returned
    \* ---- one upload after another (app/routers/documents.py) and a ----
    \* ---- session searching meanwhile (app/routers/chat.py 86-132)  ----
    upload,         \* the upload_document request under way, and its position
    upserts,        \* history: the store_chunks calls, their rows and outcome
    handle,         \* the searching session's database handle
    found,          \* what the session's last search ran over and returned
    documents,      \* the documents table: id -> the committed Document record
    removal,        \* the delete_document request under way, and its position
    \* ---- the chat history of several connections (app/routers/chat.py) ----
    now,            \* the database server's clock
    sessions,       \* per connection: its user and its handle's transaction
    history,        \* the chat_history table with created_at, in append order
    listing         \* what the last get_chat_history call returned

\* the variables of a session
vars == <<pc, websocket, api_key, user, db, message, similar_chunks, prompt,
          full_response, chat_history, sent, turn, calls, produced, outcome,
          fault, hist0, detected, late_send, lines, ended>>

\* the variables of the vector store
indexVars == <<vector_chunks, next_document, index_call, searched, deleted>>

\* the variables of a call of get_embeddings
embedVars == <<base_url, texts, requests, embedded>>

\* the variables of an upload and of the session searching meanwhile
ingestVars == <<upload, upserts, handle, found, documents, removal>>

\* the variables of the chat history shared by several connections
historyVars == <<now, sessions, history, listing>>

allVars == <<vars, indexVars, embedVars, ingestVars, historyVars>>

\* what an action of a session, of the vector store and of get_embeddings
\* leaves alone
notSession == <<indexVars, embedVars, ingestVars, historyVars>>
notIndex == <<vars, embedVars, ingestVars, historyVars>>
notEmbed == <<vars, indexVars, ingestVars, historyVars>>
notIngest == <<vars, embedVars, historyVars>>
notHistory == <<vars, indexVars, embedVars, ingestVars>>

(***************************************************************************)
(* Signals (chat.py: the dictionaries given to websocket.send_json).       *)
(***************************************************************************)
ErrorSignal(t, text) == [turn |-> t, type |-> "error", content |-> <<text>>]
MessageSignal(t, c) == [turn |-> t, type |-> "message", content |-> c]
DoneSignal(t) == [turn |-> t, type |-> "done", content |-> <<>>]

(***************************************************************************)
(* Prompt assembly (chat.py 164-177).  The prompt is a sequence of parts;  *)
(* the chunk texts are joined with a blank line between them.              *)
(***************************************************************************)
RECURSIVE Join(_)
Join(chunks) ==
    IF chunks = <<>> THEN <<>>
    ELSE IF Len(chunks) = 1 THEN <<chunks[1].chunk_text>>
    ELSE <<chunks[1].chunk_text, "\n\n">> \o Join(Tail(chunks))

\* variant: the context form is used whether or not passages were retrieved
BuildPrompt_AlwaysContext(chunks, question) ==
    LET context == IF chunks = <<>> THEN <<>> ELSE Join(chunks)
    IN  <<"Context from company documents:\n">> \o context
            \o <<"\n\nQuestion: ", question,
                 "\n\nAnswer based on the context above:">>

BuildPrompt(chunks, question) ==
    LET context == IF chunks = <<>> THEN <<>> ELSE Join(chunks)
    IN  IF context # <<>>
        THEN <<"Context from company documents:\n">> \o context
                 \o <<"\n\nQuestion: ", question,
                      "\n\nAnswer based on the context above:">>
        ELSE <<question>>

\* the vector store before any document has been ingested
NoCall == [op |-> "none", document_id |-> 0, status |-> "none", removed |-> 0,
           repeated |-> FALSE]
NoSearch == [status |-> "none", query |-> <<>>, limit |-> 0, threshold |-> 0,
             picked |-> <<>>, chunks |-> <<>>]

IndexEmpty ==
    /\ vector_chunks = <<>>
    /\ next_document = 1
    /\ index_call = NoCall
    /\ searched = NoSearch
    /\ deleted = {}

\* no call of get_embeddings under way
NoEmbeddings == [status |-> "none", value |-> <<>>]

EmbedIdle ==
    /\ base_url = TRUE
    /\ texts = <<>>
    /\ requests = 0
    /\ embedded = NoEmbeddings

\* no upload under way, no handle opened
NoUpload == [pc |-> "idle", text |-> <<>>, chunks |-> <<>>, embeddings |-> <<>>,
             document_id |-> 0, pending |-> <<>>, status |-> "none",
             chunk_count |-> 0, failed |-> "none", ids0 |-> 0, upserts0 |-> 0]
NoRemoval == [pc |-> "idle", document_id |-> 0, status |-> "none"]
NoHandle == [open |-> FALSE, tx |-> "none", snapshot |-> <<>>]
NotFound == [status |-> "none", during |-> FALSE, rows |-> {}, returned |-> {}]

IngestIdle ==
    /\ upload = NoUpload
    /\ upserts = <<>>
    /\ handle = NoHandle
    /\ found = NotFound
    /\ documents = <<>>
    /\ removal = NoRemoval

\* the connections to /ws/chat and the users their tokens resolve to
Conns == {1, 2}
Accounts == {7, 8}

\* no connection made, no turn appended, the history not yet asked for
NoSession == [user |-> 0, tx |-> 0]
NoListing == [status |-> "none", user |-> 0, limit |-> 0, appended |-> <<>>,
              rows |-> <<>>]

HistoryIdle ==
    /\ now = 1
    /\ sessions = [c \in Conns |-> NoSession]
    /\ history = <<>>
    /\ listing = NoListing

(***************************************************************************)
(* The initial state: the connection has been accepted and the database    *)
(* handle opened (chat.py 83-86); the token is still to be resolved.       *)
(***************************************************************************)
Connected ==
    /\ pc = "Auth"
    /\ websocket = "open"
    /\ api_key \in BOOLEAN
    /\ user = 0
    /\ db = [open |-> TRUE, tx |-> "ok"]
    /\ message = ""
    /\ similar_chunks = <<>>
    /\ prompt = <<>>
    /\ full_response = <<>>
    /\ chat_history = <<>>
    /\ sent = <<>>
    /\ turn = 0
    /\ calls = {}
    /\ produced = <<>>
    /\ outcome = "none"
    /\ fault = FALSE
    /\ hist0 = 0
    /\ detected = FALSE
    /\ late_send = FALSE
    /\ lines = 0
    /\ ended = "none"

Init == Connected /\ IndexEmpty /\ EmbedIdle /\ IngestIdle /\ HistoryIdle

\* the locals of a turn; the code leaves the stale values of the previous
\* turn in place and overwrites each before its first use in the next one
TurnLocals == <<similar_chunks, prompt, full_response>>

(***************************************************************************)
(* The ends of the handler.                                                *)
(***************************************************************************)
\* variant: the handler ends without the finally clause
Close_KeepHandle ==
    /\ pc' = "Closed"
    /\ db' = db
    /\ websocket' = "closed"

\* chat.py 99, 103, 110, 297 (break) and 320-324 (finally: db.close())
Close ==
    /\ pc' = "Closed"
    /\ db' = [db EXCEPT !.open = FALSE]
    /\ websocket' = "closed"

\* chat.py 134-142, 144-152, 154-162, 264-272, 274-282, 284-292:
\*     try: send error; send done   except: pass   continue
\* drop: the peer goes away between the two sends.  already: the failure
\* being handled is itself a send that raised on the closed transport.
\* variant: the handler sends the error signal and forgets the turn-end one
ErrorAndDone_NoDone(text, drop, already) ==
    /\ IF websocket = "open"
       THEN /\ sent' = Append(sent, ErrorSignal(turn, text))
            /\ UNCHANGED <<websocket, detected, late_send>>
       ELSE /\ UNCHANGED <<sent, websocket>>
            /\ detected' = TRUE
            /\ late_send' = (late_send \/ already)
    /\ pc' = "Await"

ErrorAndDone(text, drop, already) ==
    /\ IF websocket = "open"
       THEN IF drop
            THEN /\ sent' = Append(sent, ErrorSignal(turn, text))
                 /\ websocket' = "closed"
                 /\ detected' = TRUE
                 /\ late_send' = late_send
            ELSE /\ sent' = sent \o <<ErrorSignal(turn, text), DoneSignal(turn)>>
                 /\ UNCHANGED <<websocket, detected, late_send>>
       ELSE /\ UNCHANGED <<sent, websocket>>
            /\ detected' = TRUE
            /\ late_send' = (late_send \/ already)
    /\ pc' = "Await"

(***************************************************************************)
(* chat.py 89-92: the token is resolved; no user: close(1008) and return.  *)
(***************************************************************************)
\* variant: the check of the resolved user (90-92) is missing
Authorize_NoCheck ==
    /\ pc = "Auth"
    /\ \E u \in Users \cup {0} :
          /\ user' = u
          /\ pc' = "Await"
          /\ UNCHANGED <<db, websocket>>
    /\ UNCHANGED <<api_key, message, TurnLocals, chat_history, sent, turn,
                   calls, produced, outcome, fault, hist0, detected,
                   late_send, lines>>
    /\ UNCHANGED ended
    /\ UNCHANGED notSession

Authorize ==
    /\ pc = "Auth"
    /\ \E u \in Users \cup {0} :
          /\ user' = u
          /\ IF u = 0
             THEN Close
             ELSE /\ pc' = "Await"
                  /\ UNCHANGED <<db, websocket>>
    /\ UNCHANGED <<api_key, message, TurnLocals, chat_history, sent, turn,
                   calls, produced, outcome, fault, hist0, detected,
                   late_send, lines>>
    /\ UNCHANGED ended
    /\ UNCHANGED notSession

(***************************************************************************)
(* The peer closes the transport.  It can do so whenever the handler is    *)
(* suspended; the handler learns of it only when a send or receive raises. *)
(***************************************************************************)
ClientDisconnect ==
    /\ pc \notin {"Auth", "Closed"}
    /\ websocket = "open"
    /\ websocket' = "closed"
    /\ UNCHANGED <<pc, api_key, user, db, message, TurnLocals, chat_history,
                   sent, turn, calls, produced, outcome, fault, hist0,
                   detected, late_send, lines>>
    /\ UNCHANGED ended
    /\ UNCHANGED notSession

(***************************************************************************)
(* chat.py 95-111: receive one unit.                                       *)
(***************************************************************************)
\* 96-97: a JSON object arrives; its "message" (default "") is the question
\* variant: a unit is also taken while the previous turn is still streaming
ReceiveQuestion_WhileStreaming ==
    /\ pc \in {"Await", "Streaming"}
    /\ websocket = "open"
    /\ turn < MaxTurns
    /\ \E m \in Messages :
          /\ message' = m
          /\ pc' = "Validate"
    /\ turn' = turn + 1
    /\ similar_chunks' = <<>>
    /\ prompt' = <<>>
    /\ full_response' = <<>>
    /\ calls' = {}
    /\ produced' = <<>>
    /\ outcome' = "active"
    /\ fault' = FALSE
    /\ hist0' = Len(chat_history)
    /\ UNCHANGED <<websocket, api_key, user, db, chat_history, sent,
                   detected, late_send, lines>>
    /\ ended' = "none"
    /\ UNCHANGED notSession

ReceiveQuestion ==
    /\ pc = "Await"
    /\ websocket = "open"
    /\ turn < MaxTurns
    /\ \E m \in Messages :
          /\ message' = m
          /\ pc' = "Validate"
    /\ turn' = turn + 1
    /\ similar_chunks' = <<>>
    /\ prompt' = <<>>
    /\ full_response' = <<>>
    /\ calls' = {}
    /\ produced' = <<>>
    /\ outcome' = "active"
    /\ fault' = FALSE
    /\ hist0' = Len(chat_history)
    /\ UNCHANGED <<websocket, api_key, user, db, chat_history, sent,
                   detected, late_send, lines>>
    /\ ended' = "none"
    /\ UNCHANGED notSession

\* 98-99: WebSocketDisconnect: break
ReceiveDisconnect ==
    /\ pc = "Await"
    /\ websocket = "closed"
    /\ Close
    /\ detected' = TRUE
    /\ UNCHANGED <<api_key, user, message, TurnLocals, chat_history, sent,
                   turn, calls, produced, outcome, fault, hist0, late_send,
                   lines>>
    /\ UNCHANGED ended
    /\ UNCHANGED notSession

\* 100-111: the unit cannot be read as a JSON object (or the receive raises
\* for another reason).  going_away: the exception text names 1001/1012.
\* drop: the peer goes away before the error is sent, the send raises: break.
ReceiveError ==
    /\ pc = "Await"
    /\ websocket = "open"
    /\ turn < MaxTurns
    /\ turn' = turn + 1
    /\ message' = ""
    /\ similar_chunks' = <<>>
    /\ prompt' = <<>>
    /\ full_response' = <<>>
    /\ calls' = {}
    /\ produced' = <<>>
    /\ fault' = FALSE
    /\ hist0' = Len(chat_history)
    /\ outcome' = "receive_error"
    /\ \E going_away \in BOOLEAN, drop \in BOOLEAN :
          IF going_away
          THEN /\ Close
               /\ UNCHANGED <<sent, detected>>
          ELSE IF drop
          THEN /\ Close
               /\ detected' = TRUE
               /\ UNCHANGED sent
          ELSE /\ sent' = Append(sent, ErrorSignal(turn + 1, "Error receiving message"))
               /\ pc' = "Await"
               /\ UNCHANGED <<db, websocket, detected>>
    /\ UNCHANGED <<api_key, user, chat_history, late_send, lines>>
    /\ UNCHANGED ended
    /\ UNCHANGED notSession

(***************************************************************************)
(* chat.py 113-125: the two checks made before any upstream call.  Their   *)
(* sends are not guarded: a send on a transport the peer has closed raises *)
(* WebSocketDisconnect, which leaves the loop through the outer handler    *)
(* (310-311: pass) and the finally clause.                                 *)
(***************************************************************************)
Reject(text, label) ==
    /\ outcome' = label
    /\ IF websocket = "open"
       THEN /\ sent' = Append(sent, ErrorSignal(turn, text))
            /\ pc' = "Await"
            /\ UNCHANGED <<db, websocket, detected, late_send>>
       ELSE /\ Close
            /\ detected' = TRUE
            /\ UNCHANGED <<sent, late_send>>

\* variant: the emptiness check (113-118) is missing
Validate_NoEmptyCheck ==
    /\ pc = "Validate"
    /\ IF ~api_key
       THEN Reject("OpenRouter API key is not configured.", "no_api_key")
       ELSE /\ pc' = "Embed"
            /\ UNCHANGED <<db, websocket, sent, outcome, detected, late_send>>
    /\ UNCHANGED <<api_key, user, message, TurnLocals, chat_history, turn,
                   calls, produced, fault, hist0, lines>>
    /\ UNCHANGED ended
    /\ UNCHANGED notSession

Validate ==
    /\ pc = "Validate"
    /\ IF message = ""
       THEN Reject("Empty message", "empty")
       ELSE IF ~api_key
       THEN Reject("OpenRouter API key is not configured.", "no_api_key")
       ELSE /\ pc' = "Embed"
            /\ UNCHANGED <<db, websocket, sent, outcome, detected, late_send>>
    /\ UNCHANGED <<api_key, user, message, TurnLocals, chat_history, turn,
                   calls, produced, fault, hist0, lines>>
    /\ UNCHANGED ended
    /\ UNCHANGED notSession

(***************************************************************************)
(* chat.py 130-162: retrieval.  get_embedding (embedding_service.py 12-55) *)
(* raises ValueError on a non-success status, ConnectionError when the     *)
(* provider cannot be reached, and anything else (a timeout, a response    *)
(* without "data") as it comes; the three handlers differ in the text.     *)
(***************************************************************************)
EmbedOutcomes == {"ok", "status", "connect", "other"}

RetrievalErrorText(e) ==
    IF e = "status" THEN "Embedding service error"
    ELSE IF e = "connect" THEN "Connection error"
    ELSE "Error getting embeddings"

Embed ==
    /\ pc = "Embed"
    /\ calls' = calls \cup {"embed"}
    /\ \E e \in EmbedOutcomes, drop \in BOOLEAN :
          IF e = "ok"
          THEN /\ pc' = "Search"
               /\ UNCHANGED <<websocket, sent, outcome, fault, detected, late_send>>
          ELSE /\ ErrorAndDone(RetrievalErrorText(e), drop, FALSE)
               /\ outcome' = "retrieval_failed"
               /\ fault' = TRUE
    /\ UNCHANGED <<api_key, user, db, message, TurnLocals, chat_history, turn,
                   produced, hist0, lines>>
    /\ UNCHANGED ended
    /\ UNCHANGED notSession

(***************************************************************************)
(* vector_store.py 18-43, on the connection's own Session (chat.py 86,     *)
(* 132).  db.execute raises when the statement fails; the transaction of   *)
(* the Session is then aborted, and as nothing in chat.py rolls it back    *)
(* (no db.rollback() anywhere), every later statement on this handle       *)
(* raises too.  A failed commit (chat.py 306) is rolled back by the        *)
(* Session itself.                                                         *)
(***************************************************************************)
\* whether the statement of a search raises: the server fails it now
\* (server_error), or the transaction was left aborted by an earlier failure
SearchRaises(server_error) == server_error \/ db.tx = "aborted"

\* variant: a search that raises is swallowed and the turn goes on to
\* generation with no context
Search_SwallowError ==
    /\ pc = "Search"
    /\ calls' = calls \cup {"search"}
    /\ \E server_error \in BOOLEAN, r \in Results :
          IF SearchRaises(server_error)
          THEN /\ db' = [db EXCEPT !.tx = "aborted"]
               /\ similar_chunks' = <<>>
               /\ prompt' = BuildPrompt(<<>>, message)
               /\ pc' = "Generate"
               /\ outcome' = "retrieval_failed"
               /\ fault' = (fault \/ server_error)
               /\ UNCHANGED <<full_response, websocket, sent, detected, late_send>>
          ELSE /\ similar_chunks' = r
               /\ prompt' = BuildPrompt(r, message)
               /\ pc' = "Generate"
               /\ UNCHANGED <<db, full_response, websocket, sent, outcome,
                              fault, detected, late_send>>
    /\ UNCHANGED <<api_key, user, message, chat_history, turn, produced,
                   hist0, lines>>
    /\ UNCHANGED ended
    /\ UNCHANGED notSession

\* variant: an empty result ends the turn with an error signal and no
\* generation call
Search_EmptyIsError ==
    /\ pc = "Search"
    /\ calls' = calls \cup {"search"}
    /\ \E server_error \in BOOLEAN, r \in Results, drop \in BOOLEAN :
          IF SearchRaises(server_error)
          THEN /\ db' = [db EXCEPT !.tx = "aborted"]
               /\ ErrorAndDone(RetrievalErrorText("other"), drop, FALSE)
               /\ outcome' = "retrieval_failed"
               /\ fault' = (fault \/ server_error)
               /\ UNCHANGED TurnLocals
          ELSE IF r = <<>>
          THEN /\ ErrorAndDone("No relevant information", drop, FALSE)
               /\ outcome' = "retrieval_failed"
               /\ UNCHANGED <<db, fault, TurnLocals>>
          ELSE /\ similar_chunks' = r
               /\ prompt' = BuildPrompt(r, message)
               /\ pc' = "Generate"
               /\ UNCHANGED <<db, full_response, websocket, sent, outcome,
                              fault, detected, late_send>>
    /\ UNCHANGED <<api_key, user, message, chat_history, turn, produced,
                   hist0, lines>>
    /\ UNCHANGED ended
    /\ UNCHANGED notSession

Search ==
    /\ pc = "Search"
    /\ calls' = calls \cup {"search"}
    /\ \E server_error \in BOOLEAN, r \in Results, drop \in BOOLEAN :
          IF SearchRaises(server_error)
          THEN /\ db' = [db EXCEPT !.tx = "aborted"]
               /\ ErrorAndDone(RetrievalErrorText("other"), drop, FALSE)
               /\ outcome' = "retrieval_failed"
               /\ fault' = (fault \/ server_error)
               /\ UNCHANGED TurnLocals
          ELSE /\ similar_chunks' = r
               /\ prompt' = BuildPrompt(r, message)
               /\ pc' = "Generate"
               /\ UNCHANGED <<db, full_response, websocket, sent, outcome,
                              fault, detected, late_send>>
    /\ UNCHANGED <<api_key, user, message, chat_history, turn, produced,
                   hist0, lines>>
    /\ UNCHANGED ended
    /\ UNCHANGED notSession

(***************************************************************************)
(* chat.py 179-243: the streamed request is opened.  ConnectError and      *)
(* HTTPStatusError (raise_for_status) have handlers of their own (263-282),*)
(* anything else goes to the general one (283-292).                        *)
(***************************************************************************)
OpenOutcomes == {"ok", "connect", "status", "other"}

GenerationErrorText(e) ==
    IF e = "connect" THEN "Failed to connect to API"
    ELSE IF e = "status" THEN "API error"
    ELSE "Unexpected error"

OpenStream ==
    /\ pc = "Generate"
    /\ full_response' = <<>>
    /\ calls' = calls \cup {"generate"}
    /\ \E e \in OpenOutcomes, drop \in BOOLEAN :
          IF e = "ok"
          THEN /\ pc' = "Streaming"
               /\ UNCHANGED <<websocket, sent, outcome, fault, detected, late_send>>
          ELSE /\ ErrorAndDone(GenerationErrorText(e), drop, FALSE)
               /\ outcome' = "generation_failed"
               /\ fault' = TRUE
    /\ UNCHANGED <<api_key, user, db, message, similar_chunks, prompt,
                   chat_history, turn, produced, hist0, lines>>
    /\ UNCHANGED ended
    /\ UNCHANGED notSession

(***************************************************************************)
(* chat.py 244-262: one iteration of the loop over the lines of the stream.*)
(***************************************************************************)
\* 255-260: a delta with content: accumulate, then forward
\* variant: "full_response = content" for "full_response += content"
Forward_Overwrite(c, drop) ==
    /\ full_response' = c
    /\ IF websocket = "open"
       THEN /\ sent' = Append(sent, MessageSignal(turn, c))
            /\ UNCHANGED <<pc, websocket, outcome, detected, late_send>>
       ELSE /\ ErrorAndDone(GenerationErrorText("other"), drop, TRUE)
            /\ outcome' = "send_failed"
    /\ UNCHANGED fault

\* variant: the fragment is accumulated but not sent until the stream ends
Forward_Buffered(c, drop) ==
    /\ full_response' = full_response \o c
    /\ UNCHANGED <<pc, websocket, sent, outcome, detected, late_send, fault>>

Forward(c, drop) ==
    /\ full_response' = full_response \o c
    /\ IF websocket = "open"
       THEN /\ sent' = Append(sent, MessageSignal(turn, c))
            /\ UNCHANGED <<pc, websocket, outcome, detected, late_send>>
       ELSE \* send_json raises: handled at 283-292
            /\ ErrorAndDone(GenerationErrorText("other"), drop, TRUE)
            /\ outcome' = "send_failed"
    /\ UNCHANGED fault

ProcessLine(k, c, drop) ==
    IF k = "frag"
    THEN /\ Forward(c, drop)
         /\ produced' = Append(produced, c)
    ELSE IF k = "badshape"
    THEN \* AttributeError/TypeError from .get or [0]: handled at 283-292
         /\ ErrorAndDone(GenerationErrorText("other"), drop, FALSE)
         /\ outcome' = "generation_failed"
         /\ fault' = TRUE
         /\ UNCHANGED <<full_response, produced>>
    ELSE \* 245 (no "data: " prefix), 261-262 (JSONDecodeError), 252/255
         UNCHANGED <<pc, websocket, sent, outcome, fault, detected, late_send,
                     full_response, produced>>

StreamLine ==
    /\ pc = "Streaming"
    /\ lines < MaxLines
    /\ lines' = lines + 1
    /\ \E k \in LineKinds, drop \in BOOLEAN :
          ProcessLine(k, LineContent(lines + 1), drop)
    /\ UNCHANGED <<api_key, user, db, message, similar_chunks, prompt,
                   chat_history, turn, calls, hist0>>
    /\ UNCHANGED ended
    /\ UNCHANGED notSession

\* the stream ends: with the "[DONE]" marker (247-248), without it (the
\* iterator is exhausted), or with an exception (a read error, a timeout)
StreamEnds == {"marker", "eof", "error"}

\* variant: a stream that ends without the marker is handled as a failure
StreamEnd_EofIsError ==
    /\ pc = "Streaming"
    /\ \E how \in StreamEnds, drop \in BOOLEAN :
          IF how = "error"
          THEN /\ ErrorAndDone(GenerationErrorText("other"), drop, FALSE)
               /\ outcome' = "generation_failed"
               /\ fault' = TRUE
               /\ UNCHANGED ended
          ELSE IF how = "eof"
          THEN /\ ErrorAndDone(GenerationErrorText("other"), drop, FALSE)
               /\ outcome' = "generation_failed"
               /\ ended' = how
               /\ UNCHANGED fault
          ELSE /\ pc' = "SendDone"
               /\ ended' = how
               /\ UNCHANGED <<websocket, sent, outcome, fault, detected, late_send>>
    /\ UNCHANGED <<api_key, user, db, message, TurnLocals, chat_history, turn,
                   calls, produced, hist0, lines>>
    /\ UNCHANGED notSession

\* variant: a completed stream goes straight to the history append
StreamEnd_SkipDone ==
    /\ pc = "Streaming"
    /\ \E how \in StreamEnds, drop \in BOOLEAN :
          IF how = "error"
          THEN /\ ErrorAndDone(GenerationErrorText("other"), drop, FALSE)
               /\ outcome' = "generation_failed"
               /\ fault' = TRUE
               /\ UNCHANGED ended
          ELSE /\ pc' = "Persist"
               /\ ended' = how
               /\ UNCHANGED <<websocket, sent, outcome, fault, detected, late_send>>
    /\ UNCHANGED <<api_key, user, db, message, TurnLocals, chat_history, turn,
                   calls, produced, hist0, lines>>
    /\ UNCHANGED notSession

StreamEnd ==
    /\ pc = "Streaming"
    /\ \E how \in StreamEnds, drop \in BOOLEAN :
          IF how = "error"
          THEN /\ ErrorAndDone(GenerationErrorText("other"), drop, FALSE)
               /\ outcome' = "generation_failed"
               /\ fault' = TRUE
               /\ UNCHANGED ended
          ELSE /\ pc' = "SendDone"
               /\ ended' = how
               /\ UNCHANGED <<websocket, sent, outcome, fault, detected, late_send>>
    /\ UNCHANGED <<api_key, user, db, message, TurnLocals, chat_history, turn,
                   calls, produced, hist0, lines>>
    /\ UNCHANGED notSession

(***************************************************************************)
(* chat.py 294-297: the turn-end signal; a send that raises: break.        *)
(***************************************************************************)
\* variant: a turn-end send that fails is ignored (except: pass) and the turn
\* goes on to the append
SendDone_IgnoreFailure ==
    /\ pc = "SendDone"
    /\ IF websocket = "open"
       THEN /\ sent' = Append(sent, DoneSignal(turn))
            /\ UNCHANGED detected
       ELSE /\ detected' = TRUE
            /\ UNCHANGED sent
    /\ pc' = "Persist"
    /\ UNCHANGED <<db, websocket, outcome>>
    /\ UNCHANGED <<api_key, user, message, TurnLocals, chat_history, turn,
                   calls, produced, fault, hist0, late_send, lines>>
    /\ UNCHANGED ended
    /\ UNCHANGED notSession

SendDone ==
    /\ pc = "SendDone"
    /\ IF websocket = "open"
       THEN /\ sent' = Append(sent, DoneSignal(turn))
            /\ pc' = "Persist"
            /\ UNCHANGED <<db, websocket, outcome, detected>>
       ELSE /\ Close
            /\ outcome' = "done_failed"
            /\ detected' = TRUE
            /\ UNCHANGED sent
    /\ UNCHANGED <<api_key, user, message, TurnLocals, chat_history, turn,
                   calls, produced, fault, hist0, late_send, lines>>
    /\ ended' = IF websocket = "open" THEN ended ELSE "none"
    /\ UNCHANGED notSession

(***************************************************************************)
(* chat.py 299-308: the turn is appended to the history; a failure is      *)
(* swallowed (except: pass).                                               *)
(***************************************************************************)
ChatHistory(u, m, r) == [user_id |-> u, message |-> m, response |-> r]

\* variant: a failed append is reported to the caller like the other failures
Persist_ReportFailure ==
    /\ pc = "Persist"
    /\ \E commit_ok \in BOOLEAN :
          IF commit_ok /\ db.tx = "ok"
          THEN /\ chat_history' =
                     Append(chat_history, ChatHistory(user, message, full_response))
               /\ outcome' = "persisted"
               /\ UNCHANGED <<fault, db, sent>>
          ELSE /\ db' = [db EXCEPT !.tx = "ok"]
               /\ outcome' = "persist_failed"
               /\ fault' = TRUE
               /\ sent' = IF websocket = "open"
                          THEN Append(sent, ErrorSignal(turn, "History error"))
                          ELSE sent
               /\ UNCHANGED chat_history
    /\ pc' = "Await"
    /\ UNCHANGED <<websocket, api_key, user, message, TurnLocals, turn,
                   calls, produced, hist0, detected, late_send, lines>>
    /\ ended' = "none"
    /\ UNCHANGED notSession

Persist ==
    /\ pc = "Persist"
    /\ \E commit_ok \in BOOLEAN :
          IF commit_ok /\ db.tx = "ok"
          THEN /\ chat_history' =
                     Append(chat_history, ChatHistory(user, message, full_response))
               /\ outcome' = "persisted"
               /\ UNCHANGED <<fault, db>>
          ELSE /\ db' = [db EXCEPT !.tx = "ok"]
               /\ outcome' = "persist_failed"
               /\ fault' = TRUE
               /\ UNCHANGED chat_history
    /\ pc' = "Await"
    /\ UNCHANGED <<websocket, api_key, user, message, TurnLocals, sent, turn,
                   calls, produced, hist0, detected, late_send, lines>>
    /\ ended' = "none"
    /\ UNCHANGED notSession

Next ==
    \/ Authorize
    \/ ClientDisconnect
    \/ ReceiveQuestion
    \/ ReceiveDisconnect
    \/ ReceiveError
    \/ Validate
    \/ Embed
    \/ Search
    \/ OpenStream
    \/ StreamLine
    \/ StreamEnd
    \/ SendDone
    \/ Persist

Spec == Init /\ [][Next]_allVars

(***************************************************************************)
(* The vector store: app/services/vector_store.py over the vector_chunks   *)
(* table (app/models/vector_chunk.py).                                     *)
(*                                                                         *)
(* Embeddings are vectors of norm 10 in the plane, so the cosine           *)
(* similarity of two of them is their dot product in hundredths: 100 is    *)
(* similarity 1, 70 the default threshold 0.7.  The two embeddings used    *)
(* have similarity 0.8 to each other.                                      *)
(***************************************************************************)
\* chunk texts and the embedding each one gets from the provider; two of
\* the texts get the same embedding
Texts == {"a", "b", "c"}

EmbeddingOf(chunk_text) ==
    IF chunk_text \in {"a", "c"} THEN <<10, 0>>
    ELSE <<8, 6>>

Vectors == {EmbeddingOf(t) : t \in Texts}

\* similarity thresholds a search is called with, in hundredths
Floors == {70, 100}

Min(a, b) == IF a < b THEN a ELSE b

\* vector_store.py 29-31: 1 - (embedding <=> query), in hundredths
Similarity(embedding, query) ==
    embedding[1] * query[1] + embedding[2] * query[2]

\* variant: enumerate(..., start=1)
NewRows_IndexFromOne(document_id, chunks, embeddings) ==
    [i \in 1..Min(Len(chunks), Len(embeddings)) |->
        [document_id |-> document_id, chunk_text |-> chunks[i],
         chunk_index |-> i, embedding |-> embeddings[i]]]

\* vector_store.py 8-14: one row per pair of zip(chunks, embeddings), with
\* chunk_index its position in the batch counted from 0
NewRows(document_id, chunks, embeddings) ==
    [i \in 1..Min(Len(chunks), Len(embeddings)) |->
        [document_id |-> document_id, chunk_text |-> chunks[i],
         chunk_index |-> i - 1, embedding |-> embeddings[i]]]

\* the batches upload_document hands to store_chunks: the texts of the
\* chunks and the embedding of each
Batches(n) == UNION {[1..k -> Texts] : k \in 1..n}

(***************************************************************************)
(* vector_store.py 6-16, called by documents.py 75-86 with the id of the   *)
(* Document record just committed.  The rows are added and committed       *)
(* together; when the commit raises none of them is stored.                *)
(***************************************************************************)
StoreChunks ==
    /\ next_document <= MaxDocs
    /\ Len(vector_chunks) < MaxRows
    /\ \E chunks \in Batches(MaxRows - Len(vector_chunks)), commit_ok \in BOOLEAN :
          LET embeddings == [i \in DOMAIN chunks |-> EmbeddingOf(chunks[i])]
          IN  IF commit_ok
              THEN /\ vector_chunks' =
                         vector_chunks \o NewRows(next_document, chunks, embeddings)
                   /\ index_call' = [op |-> "store", document_id |-> next_document,
                                     status |-> "ok", removed |-> 0,
                                     repeated |-> FALSE]
              ELSE /\ vector_chunks' = vector_chunks
                   /\ index_call' = [op |-> "store", document_id |-> next_document,
                                     status |-> "error", removed |-> 0,
                                     repeated |-> FALSE]
    /\ next_document' = next_document + 1
    /\ searched' = NoSearch
    /\ UNCHANGED deleted
    /\ UNCHANGED notIndex

(***************************************************************************)
(* vector_store.py 18-43.  The statement keeps the rows whose similarity   *)
(* to the query is at least the threshold, orders them by distance and     *)
(* takes the first `limit`.  ORDER BY names the distance only, so the      *)
(* order of rows at equal distance, and which of them fall under the       *)
(* LIMIT, is whatever the executor produces: every ranking that is         *)
(* consistent with the distances is a possible result.  A search leaves    *)
(* the table as it is, so one search is taken between two writes.          *)
(***************************************************************************)
\* variant: WHERE similarity > threshold
Qualifying_Strict(query, threshold) ==
    {i \in DOMAIN vector_chunks :
        Similarity(vector_chunks[i].embedding, query) > threshold}

\* vector_store.py 32: WHERE similarity >= threshold
Qualifying(query, threshold) ==
    {i \in DOMAIN vector_chunks :
        Similarity(vector_chunks[i].embedding, query) >= threshold}

\* variant: ORDER BY similarity, the least similar rows first
Rankings_Ascending(query, limit, threshold) ==
    LET Q == Qualifying(query, threshold)
        sim(i) == Similarity(vector_chunks[i].embedding, query)
    IN  {s \in [1..Min(limit, Cardinality(Q)) -> Q] :
            /\ \A i, j \in DOMAIN s : i < j => s[i] # s[j] /\ sim(s[i]) <= sim(s[j])
            /\ \A k \in Q : (\A i \in DOMAIN s : s[i] # k) =>
                  \A i \in DOMAIN s : sim(s[i]) <= sim(k)}

\* vector_store.py 33-34: ORDER BY distance LIMIT limit, as positions in
\* the table
Rankings(query, limit, threshold) ==
    LET Q == Qualifying(query, threshold)
        sim(i) == Similarity(vector_chunks[i].embedding, query)
    IN  {s \in [1..Min(limit, Cardinality(Q)) -> Q] :
            /\ \A i, j \in DOMAIN s : i < j => s[i] # s[j] /\ sim(s[i]) >= sim(s[j])
            /\ \A k \in Q : (\A i \in DOMAIN s : s[i] # k) =>
                  \A i \in DOMAIN s : sim(s[i]) >= sim(k)}

SearchSimilarChunks ==
    /\ searched = NoSearch
    /\ \E query \in Vectors, limit \in 0..MaxLimit, threshold \in Floors :
          \E s \in Rankings(query, limit, threshold) :
             searched' =
                 [status |-> "ok",
                  query |-> query, limit |-> limit, threshold |-> threshold,
                  picked |-> s,
                  chunks |-> [i \in DOMAIN s |->
                                 <<vector_chunks[s[i]].chunk_text,
                                   Similarity(vector_chunks[s[i]].embedding, query)>>]]
    /\ UNCHANGED <<vector_chunks, next_document, index_call, deleted>>
    /\ UNCHANGED notIndex

(***************************************************************************)
(* vector_store.py 45-48, called by documents.py 131 for a Document that   *)
(* exists: the rows of the document are deleted, however many there are,   *)
(* and the deletion is committed.                                          *)
(***************************************************************************)
RowsOf(document_id) ==
    SelectSeq(vector_chunks, LAMBDA row : row.document_id = document_id)

\* variant: the filter on document_id is missing
DeleteDocumentChunks_All ==
    /\ \E document_id \in 1..(next_document - 1) :
          /\ vector_chunks' = <<>>
          /\ index_call' = [op |-> "delete", document_id |-> document_id,
                            status |-> "ok",
                            removed |-> Len(vector_chunks),
                            repeated |-> document_id \in deleted]
          /\ deleted' = deleted \cup {document_id}
    /\ searched' = NoSearch
    /\ UNCHANGED next_document
    /\ UNCHANGED notIndex

\* variant: deleting nothing is reported as a failure
DeleteDocumentChunks_NotFound ==
    /\ \E document_id \in 1..(next_document - 1) :
          /\ vector_chunks' =
                 SelectSeq(vector_chunks, LAMBDA row : row.document_id # document_id)
          /\ index_call' = [op |-> "delete", document_id |-> document_id,
                            status |-> IF RowsOf(document_id) = <<>>
                                       THEN "error" ELSE "ok",
                            removed |-> Len(RowsOf(document_id)),
                            repeated |-> document_id \in deleted]
          /\ deleted' = deleted \cup {document_id}
    /\ searched' = NoSearch
    /\ UNCHANGED next_document
    /\ UNCHANGED notIndex

DeleteDocumentChunks ==
    /\ \E document_id \in 1..(next_document - 1) :
          /\ vector_chunks' =
                 SelectSeq(vector_chunks, LAMBDA row : row.document_id # document_id)
          /\ index_call' = [op |-> "delete", document_id |-> document_id,
                            status |-> "ok",
                            removed |-> Len(RowsOf(document_id)),
                            repeated |-> document_id \in deleted]
          /\ deleted' = deleted \cup {document_id}
    /\ searched' = NoSearch
    /\ UNCHANGED next_document
    /\ UNCHANGED notIndex

\* the store before any upload, with no session under way
InitIndex == Init /\ api_key

NextIndex ==
    \/ StoreChunks
    \/ SearchSimilarChunks
    \/ DeleteDocumentChunks

SpecIndex == InitIndex /\ [][NextIndex]_allVars

(***************************************************************************)
(* The embedding client: app/services/embedding_service.py, get_embeddings *)
(* (12-50).  One call is modelled, for every argument and every answer of  *)
(* the provider.                                                           *)
(***************************************************************************)
\* the lists of texts get_embeddings is called with
TextLists == UNION {[1..n -> Texts] : n \in 0..MaxTexts}

\* an entry of the "data" list of the provider's answer for the k-th input
Item(list, k) == [index |-> k - 1, embedding |-> EmbeddingOf(list[k])]

\* what a provider can send back on a request for the inputs `list`:
\*   connect  the connection cannot be established   (httpx.ConnectError)
\*   timeout  no answer within the timeout           (httpx.TimeoutException)
\*   status   an answer with a non-success status    (raise_for_status)
\*   nodata   a success answer whose body has no "data" list
\*   data     a success answer with a "data" list: entries for inputs of the
\*            request, each carrying the index of its input; the provider
\*            need not send an entry for every input nor send them in order
Responses(list) ==
    {[kind |-> k, data |-> <<>>] : k \in {"connect", "timeout", "status", "nodata"}}
    \cup {[kind |-> "data", data |-> d] :
             d \in UNION {[1..n -> {Item(list, k) : k \in DOMAIN list}] :
                             n \in 0..Len(list)}}

\* embedding_service.py 27-50: what the call makes of the answer
Returned(response) ==
    IF response.kind = "connect" THEN [status |-> "ConnectionError", value |-> <<>>]
    ELSE IF response.kind = "status" THEN [status |-> "ValueError", value |-> <<>>]
    ELSE IF response.kind = "timeout" THEN [status |-> "TimeoutException", value |-> <<>>]
    ELSE IF response.kind = "nodata" THEN [status |-> "KeyError", value |-> <<>>]
    ELSE [status |-> "ok",
          value |-> [i \in DOMAIN response.data |-> response.data[i].embedding]]

GetEmbeddings ==
    /\ embedded.status = "none"
    /\ IF ~api_key \/ ~base_url
       THEN \* 14-18: ValueError before any request
            /\ embedded' = [status |-> "ValueError", value |-> <<>>]
            /\ UNCHANGED requests
       ELSE /\ requests' = requests + 1
            /\ \E response \in Responses(texts) :
                  embedded' = Returned(response)
    /\ UNCHANGED <<base_url, texts>>
    /\ UNCHANGED notEmbed

\* a call about to be made, with any argument and any configuration
InitEmbed ==
    /\ Connected
    /\ IndexEmpty
    /\ base_url \in BOOLEAN
    /\ texts \in TextLists
    /\ requests = 0
    /\ embedded = NoEmbeddings
    /\ IngestIdle
    /\ HistoryIdle

NextEmbed == GetEmbeddings

SpecEmbed == InitEmbed /\ [][NextEmbed]_allVars

(***************************************************************************)
(* Ingestion step by step: upload_document (documents.py 31-93) with       *)
(* store_chunks (vector_store.py 6-16), one request after another, while   *)
(* a chat session searches through the database handle it opened when it   *)
(* connected (chat.py 86-132) and documents are deleted.                   *)
(*                                                                         *)
(* The database is PostgreSQL behind create_engine(DATABASE_URL)           *)
(* (database.py 9-12) with no isolation level given, that is READ          *)
(* COMMITTED: a statement sees what was committed when it starts, whenever *)
(* its transaction began.  vector_chunks is the committed table; the rows  *)
(* a Session has added and not yet committed (autoflush is off) are in     *)
(* upload.pending and no other handle sees them.                           *)
(*                                                                         *)
(* The extracted text of a file is a sequence of pieces, each a passage    *)
(* the length of a chunk or a piece of whitespace.                         *)
(***************************************************************************)
Blank == " "

\* two passages with different embeddings are enough for the files
Pieces == {"a", "b", Blank}

Files == UNION {[1..n -> Pieces] : n \in 0..MaxTexts}

\* documents.py 54: text.strip()
Strip(text) ==
    LET body == {i \in DOMAIN text : text[i] # Blank}
    IN  IF body = {} THEN <<>>
        ELSE LET lo == CHOOSE i \in body : \A j \in body : i <= j
                 hi == CHOOSE i \in body : \A j \in body : j <= i
             IN  SubSeq(text, lo, hi)

\* text_splitter.py 3-12: the passages in order; the splitter makes no chunk
\* of whitespace alone, so a text of whitespace gives no chunk at all
split_text(text) == SelectSeq(text, LAMBDA piece : piece # Blank)

\* the limit and the threshold of the search a chat turn makes (chat.py 132)
ChatLimit == 5
ChatThreshold == 70

Range(seq) == {seq[i] : i \in DOMAIN seq}

\* the store_chunks call for document d, if one was made
UpsertOf(d) == CHOOSE u \in Range(upserts) : u.document_id = d
Returned_Ok == {u.document_id : u \in {v \in Range(upserts) : v.status = "ok"}}

\* documents.py 31-69: the request arrives, the text is extracted; blank
\* text is refused with status 400, any other text is saved and split
\* a table keyed by id, with a record added and with a record removed
Insert(table, id, record) ==
    [d \in DOMAIN table \cup {id} |-> IF d = id THEN record ELSE table[d]]
Remove(table, id) == [d \in DOMAIN table \ {id} |-> table[d]]

UploadSplit ==
    /\ upload.pc \in {"idle", "done"}
    /\ next_document <= MaxUploads
    /\ \E text \in Files :
          /\ Len(split_text(text)) <= MaxRows - Len(vector_chunks)
          /\ IF Strip(text) = <<>>
             THEN upload' = [NoUpload EXCEPT !.pc = "done", !.text = text,
                                             !.status = "400"]
             ELSE upload' = [NoUpload EXCEPT !.pc = "Embed", !.text = text,
                                             !.chunks = split_text(text),
                                             !.ids0 = next_document,
                                             !.upserts0 = Len(upserts)]
    /\ UNCHANGED <<upserts, handle, found>>
    /\ UNCHANGED indexVars
    /\ UNCHANGED <<documents, removal>>
    /\ UNCHANGED notIngest

\* the answers taken for the provider during an upload: a failure, or the
\* entries of the inputs in order, for all inputs or for the first of them
Answers(list) ==
    {response \in Responses(list) :
        \A i \in DOMAIN response.data : response.data[i] = Item(list, i)}

\* variant: the Document record is committed before the embeddings are asked
\* for
UploadEmbed_RecordFirst ==
    /\ upload.pc = "Embed"
    /\ \E response \in Answers(upload.chunks) :
          LET result == Returned(response)
          IN  IF result.status = "ok"
              THEN /\ upload' = [upload EXCEPT !.pc = "Record",
                                               !.embeddings = result.value]
                   /\ UNCHANGED <<documents, next_document>>
              ELSE /\ upload' = [upload EXCEPT !.pc = "done", !.chunks = <<>>,
                                               !.status = "500",
                                               !.failed = "embed"]
                   /\ documents' = Insert(documents, next_document,
                                          [chunk_count |-> Len(upload.chunks)])
                   /\ next_document' = next_document + 1
    /\ UNCHANGED <<upserts, handle, found>>
    /\ UNCHANGED <<vector_chunks, index_call, searched, deleted>>
    /\ UNCHANGED removal
    /\ UNCHANGED notIngest

\* documents.py 72: get_embeddings(chunks); an exception ends the request
UploadEmbed ==
    /\ upload.pc = "Embed"
    /\ \E response \in Answers(upload.chunks) :
          LET result == Returned(response)
          IN  IF result.status = "ok"
              THEN upload' = [upload EXCEPT !.pc = "Record",
                                            !.embeddings = result.value]
              ELSE upload' = [upload EXCEPT !.pc = "done", !.chunks = <<>>,
                                            !.status = "500",
                                            !.failed = "embed"]
    /\ UNCHANGED <<upserts, handle, found>>
    /\ UNCHANGED indexVars
    /\ UNCHANGED <<documents, removal>>
    /\ UNCHANGED notIngest

\* documents.py 75-83: the Document record is committed with
\* chunk_count = len(chunks)
UploadRecord ==
    /\ upload.pc = "Record"
    /\ upload' = [upload EXCEPT !.pc = "StoreAdd",
                                !.document_id = next_document,
                                !.chunk_count = Len(upload.chunks)]
    /\ documents' = Insert(documents, next_document,
                            [chunk_count |-> Len(upload.chunks)])
    /\ next_document' = next_document + 1
    /\ UNCHANGED <<vector_chunks, index_call, searched, deleted>>
    /\ UNCHANGED <<upserts, handle, found>>
    /\ UNCHANGED removal
    /\ UNCHANGED notIngest

\* variant: every row is committed as it is added (autocommit)
StoreAdd_CommitEach ==
    /\ upload.pc = "StoreAdd"
    /\ LET rows == NewRows(upload.document_id, upload.chunks, upload.embeddings)
       IN  /\ upload' = [upload EXCEPT !.pc = "StoreCommit",
                                       !.pending = IF rows = <<>> THEN <<>>
                                                   ELSE Tail(rows)]
           /\ vector_chunks' = IF rows = <<>> THEN vector_chunks
                               ELSE Append(vector_chunks, Head(rows))
           /\ upserts' = Append(upserts, [document_id |-> upload.document_id,
                                          rows |-> rows, status |-> "pending"])
    /\ UNCHANGED <<next_document, index_call, searched, deleted>>
    /\ UNCHANGED <<handle, found>>
    /\ UNCHANGED <<documents, removal>>
    /\ UNCHANGED notIngest

\* vector_store.py 8-15: the rows are added to the Session; nothing is
\* sent to the database before the commit
StoreAdd ==
    /\ upload.pc = "StoreAdd"
    /\ LET rows == NewRows(upload.document_id, upload.chunks, upload.embeddings)
       IN  /\ upload' = [upload EXCEPT !.pc = "StoreCommit", !.pending = rows]
           /\ upserts' = Append(upserts, [document_id |-> upload.document_id,
                                          rows |-> rows, status |-> "pending"])
    /\ UNCHANGED indexVars
    /\ UNCHANGED <<handle, found>>
    /\ UNCHANGED <<documents, removal>>
    /\ UNCHANGED notIngest

\* vector_store.py 16, called at documents.py 86: db.commit() writes the
\* pending rows in one transaction; when it raises, the transaction is rolled
\* back, none of the rows is stored and the request fails.  It raises, among
\* other reasons, when the Document the rows refer to is gone: document_id
\* is a foreign key to documents.id (models/vector_chunk.py 10).
StoreCommit ==
    /\ upload.pc = "StoreCommit"
    /\ \E commit_ok \in BOOLEAN :
          LET n == Len(upserts)
              referenced == upload.pending = <<>>
                                \/ upload.document_id \in DOMAIN documents
          IN  IF commit_ok /\ referenced
              THEN /\ vector_chunks' = vector_chunks \o upload.pending
                   /\ upload' = [upload EXCEPT !.pc = "done", !.pending = <<>>,
                                               !.chunks = <<>>,
                                               !.embeddings = <<>>,
                                               !.status = "200"]
                   /\ upserts' = [upserts EXCEPT ![n].status = "ok"]
              ELSE /\ vector_chunks' = vector_chunks
                   /\ upload' = [upload EXCEPT !.pc = "done", !.pending = <<>>,
                                               !.chunks = <<>>,
                                               !.embeddings = <<>>,
                                               !.status = "500",
                                               !.failed = "store"]
                   /\ upserts' = [upserts EXCEPT ![n].status = "error"]
    /\ UNCHANGED <<next_document, index_call, searched, deleted>>
    /\ UNCHANGED <<handle, found>>
    /\ UNCHANGED <<documents, removal>>
    /\ UNCHANGED notIngest

\* chat.py 86-89: the session opens its handle and runs its first query,
\* which begins the handle's transaction; the transaction stays open.  The
\* session is one that connected before the first store_chunks call.
HandleBegin ==
    /\ ~handle.open
    /\ upserts = <<>>
    /\ handle' = [open |-> TRUE, tx |-> "open", snapshot |-> vector_chunks]
    /\ UNCHANGED <<upload, upserts, found>>
    /\ UNCHANGED indexVars
    /\ UNCHANGED <<documents, removal>>
    /\ UNCHANGED notIngest

\* what a search over `table` with the limit and threshold of a chat turn
\* returns: the rows, whatever their order
Hits(table, query) ==
    LET Q == {i \in DOMAIN table :
                 Similarity(table[i].embedding, query) >= ChatThreshold}
        sim(i) == Similarity(table[i].embedding, query)
        rankings == {r \in [1..Min(ChatLimit, Cardinality(Q)) -> Q] :
                        /\ \A i, j \in DOMAIN r :
                              i < j => r[i] # r[j] /\ sim(r[i]) >= sim(r[j])
                        /\ \A k \in Q : (\A i \in DOMAIN r : r[i] # k) =>
                              \A i \in DOMAIN r : sim(r[i]) >= sim(k)}
    IN  {{table[r[i]] : i \in DOMAIN r} : r \in rankings}

\* what a search that raised leaves behind
Raised == [status |-> "error", during |-> FALSE, rows |-> {}, returned |-> {}]

\* variant: the statement sees the table as of the start of the handle's
\* transaction (REPEATABLE READ)
SessionSearch_Snapshot ==
    /\ handle.open
    /\ \E server_error \in BOOLEAN :
          IF server_error \/ handle.tx = "aborted"
          THEN /\ found' = Raised
               /\ handle' = [handle EXCEPT !.tx = "aborted"]
          ELSE /\ \E query \in Vectors : \E rows \in Hits(handle.snapshot, query) :
                     found' = [status |-> "ok",
                               during |-> upload.pc = "StoreCommit",
                               rows |-> rows,
                               returned |-> Returned_Ok \ deleted]
               /\ UNCHANGED handle
    /\ UNCHANGED <<upload, upserts>>
    /\ UNCHANGED indexVars
    /\ UNCHANGED <<documents, removal>>
    /\ UNCHANGED notIngest

\* chat.py 132 with vector_store.py 18-43: the search of a turn, through
\* the handle the session opened when it connected.  The statement runs
\* over the committed table.  When it fails at the server the turn reports
\* the failure (chat.py 147-162) and the handle, never rolled back, keeps
\* its aborted transaction: every later search through it raises.
SessionSearch ==
    /\ handle.open
    /\ \E server_error \in BOOLEAN :
          IF server_error \/ handle.tx = "aborted"
          THEN /\ found' = Raised
               /\ handle' = [handle EXCEPT !.tx = "aborted"]
          ELSE /\ \E query \in Vectors : \E rows \in Hits(vector_chunks, query) :
                     found' = [status |-> "ok",
                               during |-> upload.pc = "StoreCommit",
                               rows |-> rows,
                               returned |-> Returned_Ok \ deleted]
               /\ UNCHANGED handle
    /\ UNCHANGED <<upload, upserts>>
    /\ UNCHANGED indexVars
    /\ UNCHANGED <<documents, removal>>
    /\ UNCHANGED notIngest

\* documents.py 112-137, the whole handler, for a Document that exists and
\* while no upload is under way: its rows are deleted, then its record
DeleteDocument ==
    /\ upload.pc \in {"idle", "done"}
    /\ removal.pc \in {"idle", "done"}
    /\ \E document_id \in DOMAIN documents :
          /\ vector_chunks' =
                 SelectSeq(vector_chunks, LAMBDA row : row.document_id # document_id)
          /\ index_call' = [op |-> "delete", document_id |-> document_id,
                            status |-> "ok",
                            removed |-> Len(RowsOf(document_id)),
                            repeated |-> document_id \in deleted]
          /\ deleted' = deleted \cup {document_id}
          /\ documents' = Remove(documents, document_id)
          /\ removal' = [pc |-> "done", document_id |-> document_id,
                         status |-> "200"]
    /\ searched' = NoSearch
    /\ UNCHANGED next_document
    /\ UNCHANGED <<upload, upserts, handle, found>>
    /\ UNCHANGED notIngest


InitIngest == Init /\ api_key

NextIngest ==
    \/ UploadSplit
    \/ UploadEmbed
    \/ UploadRecord
    \/ StoreAdd
    \/ StoreCommit
    \/ HandleBegin
    \/ SessionSearch
    \/ DeleteDocument

SpecIngest == InitIngest /\ [][NextIngest]_allVars

(***************************************************************************)
(* Uploads and deletions interleaved: upload_document step by step as      *)
(* above, and delete_document (documents.py 112-137) step by step, each    *)
(* commit being a step.  The two requests run on Sessions of their own     *)
(* (get_db).  documents and vector_chunks are the committed tables, and    *)
(* vector_chunks.document_id is a foreign key to documents.id with no ON   *)
(* DELETE rule (models/vector_chunk.py 10): a commit that would leave a    *)
(* row pointing to no Document raises and changes nothing.                 *)
(***************************************************************************)
\* documents.py 119-124: the Document is looked up; 404 when there is none
DeleteFind ==
    /\ removal.pc \in {"idle", "done"}
    /\ \E document_id \in 1..next_document :
          IF document_id \in DOMAIN documents
          THEN removal' = [pc |-> "Chunks", document_id |-> document_id,
                           status |-> "none"]
          ELSE removal' = [pc |-> "done", document_id |-> document_id,
                           status |-> "404"]
    /\ UNCHANGED <<upload, upserts, handle, found, documents>>
    /\ UNCHANGED indexVars
    /\ UNCHANGED notIngest

\* documents.py 131 with vector_store.py 45-48: the rows of the document
\* that are committed by now are deleted, and the deletion is committed
DeleteChunks ==
    /\ removal.pc = "Chunks"
    /\ LET document_id == removal.document_id
       IN  /\ vector_chunks' =
                  SelectSeq(vector_chunks, LAMBDA row : row.document_id # document_id)
           /\ index_call' = [op |-> "delete", document_id |-> document_id,
                             status |-> "ok",
                             removed |-> Len(RowsOf(document_id)),
                             repeated |-> document_id \in deleted]
           /\ deleted' = deleted \cup {document_id}
    /\ removal' = [removal EXCEPT !.pc = "Record"]
    /\ searched' = NoSearch
    /\ UNCHANGED next_document
    /\ UNCHANGED <<upload, upserts, handle, found, documents>>
    /\ UNCHANGED notIngest

\* variant: the table has no foreign key
DeleteRecord_NoForeignKey ==
    /\ removal.pc = "Record"
    /\ documents' = Remove(documents, removal.document_id)
    /\ removal' = [removal EXCEPT !.pc = "done", !.status = "200"]
    /\ UNCHANGED <<upload, upserts, handle, found>>
    /\ UNCHANGED indexVars
    /\ UNCHANGED notIngest

\* documents.py 134-135: db.delete(document); db.commit().  The commit
\* raises when rows of the document were committed since the deletion of
\* its rows; the request then fails and the record stays.
DeleteRecord ==
    /\ removal.pc = "Record"
    /\ IF RowsOf(removal.document_id) = <<>>
       THEN /\ documents' = Remove(documents, removal.document_id)
            /\ removal' = [removal EXCEPT !.pc = "done", !.status = "200"]
       ELSE /\ UNCHANGED documents
            /\ removal' = [removal EXCEPT !.pc = "done", !.status = "500"]
    /\ UNCHANGED <<upload, upserts, handle, found>>
    /\ UNCHANGED indexVars
    /\ UNCHANGED notIngest

InitDocuments == Init /\ api_key

NextDocuments ==
    \/ UploadSplit
    \/ UploadEmbed
    \/ UploadRecord
    \/ StoreAdd
    \/ StoreCommit
    \/ DeleteFind
    \/ DeleteChunks
    \/ DeleteRecord

SpecDocuments == InitDocuments /\ [][NextDocuments]_allVars

(***************************************************************************)
(* The chat history with several connections appending to it: chat.py      *)
(* 86-89 and 299-308 for the connections, 35-66 for get_chat_history.      *)
(*                                                                         *)
(* created_at has the server default now() (models/chat.py 13), which in   *)
(* PostgreSQL is the start time of the inserting transaction.  A           *)
(* connection keeps one Session (chat.py 86, autocommit off): its          *)
(* transaction begins at the first statement after connecting or after     *)
(* the last commit, that is at the user lookup (chat.py 75) or at the      *)
(* search of a turn (chat.py 132), and ends at the commit of the append    *)
(* (chat.py 305).  Every reading of the clock advances it, so no two       *)
(* transactions begin at the same time.                                    *)
(***************************************************************************)
\* chat.py 83-92: the connection is accepted, the handle is opened and the
\* user lookup begins its transaction
WsConnect(c) ==
    /\ sessions[c].user = 0
    /\ \E u \in Accounts :
          sessions' = [sessions EXCEPT ![c] = [user |-> u, tx |-> now]]
    /\ now' = now + 1
    /\ UNCHANGED <<history, listing>>
    /\ UNCHANGED notHistory

\* chat.py 132: the search of a turn is the first statement since the last
\* commit and begins a transaction
WsSearch(c) ==
    /\ sessions[c].user # 0
    /\ sessions[c].tx = 0
    /\ Len(history) < MaxAppends
    /\ sessions' = [sessions EXCEPT ![c].tx = now]
    /\ now' = now + 1
    /\ UNCHANGED <<history, listing>>
    /\ UNCHANGED notHistory

\* chat.py 299-305: the turn is appended and committed; created_at is the
\* start time of the transaction the insert runs in
WsPersist(c) ==
    /\ sessions[c].user # 0
    /\ sessions[c].tx # 0
    /\ Len(history) < MaxAppends
    /\ history' = Append(history, [user_id |-> sessions[c].user,
                                   message |-> "q1",
                                   created_at |-> sessions[c].tx])
    /\ sessions' = [sessions EXCEPT ![c].tx = 0]
    /\ now' = now + 1
    /\ UNCHANGED listing
    /\ UNCHANGED notHistory

\* the rows of a user in the order they were appended
OfUser(u) == SelectSeq(history, LAMBDA row : row.user_id = u)

\* chat.py 46-48: ORDER BY created_at DESC
RECURSIVE NewestFirst(_)
NewestFirst(rows) ==
    IF rows = {} THEN <<>>
    ELSE LET newest == CHOOSE r \in rows :
                           \A other \in rows : other.created_at <= r.created_at
         IN  <<newest>> \o NewestFirst(rows \ {newest})

\* chat.py 48: .limit(limit)
Limit(seq, n) == SubSeq(seq, 1, Min(n, Len(seq)))

\* chat.py 51: history.reverse()
Reverse(seq) == [i \in 1..Len(seq) |-> seq[Len(seq) + 1 - i]]

\* chat.py 35-66: the rows of the user, the newest `limit` by created_at,
\* oldest of them first
GetChatHistory ==
    /\ \E u \in Accounts, limit \in 1..MaxLimit :
          listing' = [status |-> "ok", user |-> u, limit |-> limit,
                      appended |-> OfUser(u),
                      rows |-> Reverse(Limit(NewestFirst(Range(OfUser(u))), limit))]
    /\ UNCHANGED <<now, sessions, history>>
    /\ UNCHANGED notHistory

InitHistory == Init /\ api_key

NextHistory ==
    \/ \E c \in Conns : WsConnect(c)
    \/ \E c \in Conns : WsSearch(c)
    \/ \E c \in Conns : WsPersist(c)
    \/ GetChatHistory

SpecHistory == InitHistory /\ [][NextHistory]_allVars

(***************************************************************************)
(* Observations used by the properties.                                    *)
(***************************************************************************)
\* the signals of turn t, in the order delivered
SentOf(t) == SelectSeq(sent, LAMBDA g : g.turn = t)

\* how many signals of a type turn t has
Count(t, type) == Len(SelectSeq(SentOf(t), LAMBDA g : g.type = type))

\* the types of the signals of turn t
TypesOf(t) == [i \in 1..Len(SentOf(t)) |-> SentOf(t)[i].type]

\* the contents of the fragments forwarded in turn t
Forwarded(t) ==
    LET m == SelectSeq(SentOf(t), LAMBDA g : g.type = "message")
    IN  [i \in 1..Len(m) |-> m[i].content]

RECURSIVE Flatten(_)
Flatten(ss) == IF ss = <<>> THEN <<>> ELSE Head(ss) \o Flatten(Tail(ss))

\* the current turn is over
TurnOver == outcome \notin {"none", "active"}

\* turn t streamed to completion and its turn-end signal was delivered: its
\* signals are fragments followed by one done, with no error signal
CleanDone(t) ==
    /\ Count(t, "error") = 0
    /\ Count(t, "done") = 1
    /\ SentOf(t)[Len(SentOf(t))].type = "done"

\* ChatTurns appended since the current turn began
Appended == Len(chat_history) - hist0

(***************************************************************************)
(* C1. A turn whose generation call fails, before any fragment or          *)
(* mid-stream, appends no ChatTurn, and, the transport being open, the     *)
(* caller has received for it exactly one error signal and then exactly    *)
(* one done signal, after the fragments forwarded before the failure.      *)
(***************************************************************************)
C1_GenerationFailure ==
    outcome = "generation_failed" =>
        /\ Appended = 0
        /\ pc \in {"Await", "Closed"}
        /\ websocket = "open" =>
              /\ Count(turn, "error") = 1
              /\ Count(turn, "done") = 1
              /\ TypesOf(turn) =
                    [i \in 1..Len(produced) |-> "message"] \o <<"error", "done">>

C1_Witness ==
    /\ outcome = "generation_failed"
    /\ websocket = "open"
    /\ produced # <<>>
    /\ TypesOf(turn) = <<"message", "error", "done">>

(***************************************************************************)
(* C2. A turn whose retrieval fails (the embedding call or the search      *)
(* raises) makes no generation call, appends no ChatTurn and is back at    *)
(* the receive; the transport being open, its signals are one error and    *)
(* then one done.                                                          *)
(***************************************************************************)
C2_RetrievalFailure ==
    outcome = "retrieval_failed" =>
        /\ "generate" \notin calls
        /\ Appended = 0
        /\ pc \in {"Await", "Closed"}
        /\ websocket = "open" =>
              /\ pc = "Await"
              /\ TypesOf(turn) = <<"error", "done">>

C2_Witness ==
    /\ outcome = "retrieval_failed"
    /\ websocket = "open"
    /\ "search" \in calls
    /\ TypesOf(turn) = <<"error", "done">>

(***************************************************************************)
(* C3. A question asked after a failed turn is processed normally: a turn  *)
(* with a question, in which no operation was made to fail and the         *)
(* transport stayed open, ends answered and persisted, whatever happened   *)
(* in the turns before it.                                                 *)
(***************************************************************************)
C3_LaterTurnUnaffected ==
    ( /\ TurnOver
      /\ message \in Questions
      /\ api_key
      /\ ~fault
      /\ websocket = "open" ) => outcome = "persisted"

(***************************************************************************)
(* C4, as claimed.  At the end of every turn exactly one ChatTurn has been *)
(* appended if the stream completed and done was delivered, none           *)
(* otherwise, and it holds the user, the question and the concatenation of *)
(* the forwarded fragments.                                                *)
(***************************************************************************)
TurnRecordOk ==
    Appended = 1 =>
        chat_history[Len(chat_history)] =
            ChatHistory(user, message, Flatten(Forwarded(turn)))

C4_OneTurnPerCompletedStream ==
    (TurnOver /\ turn > 0) =>
        /\ Appended = (IF CleanDone(turn) THEN 1 ELSE 0)
        /\ TurnRecordOk

(***************************************************************************)
(* C4, amended.  ... exactly one ChatTurn if the stream completed, done    *)
(* was delivered and the append itself did not fail; none otherwise.       *)
(***************************************************************************)
C4_OneTurnPerPersistedStream ==
    /\ Appended \in {0, 1}
    /\ user \in Users => \A i \in 1..Len(chat_history) : chat_history[i].user_id = user
    /\ (TurnOver /\ turn > 0) =>
          /\ Appended = (IF CleanDone(turn) /\ ~fault THEN 1 ELSE 0)
          /\ TurnRecordOk

C4_Witness ==
    /\ outcome = "persisted"
    /\ Len(produced) = 2
    /\ produced[1] # produced[2]
    /\ chat_history[Len(chat_history)].response = produced[1] \o produced[2]

(***************************************************************************)
(* C5. When the append fails after a delivered answer, nothing is sent     *)
(* after the turn's done signal, and unless the peer has gone the session  *)
(* is back at the receive with its handle open.                            *)
(***************************************************************************)
C5_PersistFailureSilent ==
    outcome = "persist_failed" =>
        /\ sent # <<>>
        /\ sent[Len(sent)] = DoneSignal(turn)
        /\ Appended = 0
        /\ websocket = "open" => (pc = "Await" /\ db.open)

C5_Witness ==
    /\ outcome = "persist_failed"
    /\ websocket = "open"
    /\ pc = "Await"
    /\ produced # <<>>

(***************************************************************************)
(* C6. An empty question makes no upstream call and appends no ChatTurn;   *)
(* the caller gets one rejection signal and the session is back at the     *)
(* receive.                                                                *)
(***************************************************************************)
C6_EmptyQuestionRejected ==
    (turn > 0 /\ message = "" /\ outcome # "receive_error") =>
        /\ calls = {}
        /\ Appended = 0
        /\ pc \in {"Validate", "Await", "Closed"}
        /\ (pc = "Await" /\ websocket = "open") =>
              SentOf(turn) = <<ErrorSignal(turn, "Empty message")>>

C6_Witness ==
    /\ outcome = "empty"
    /\ pc = "Await"
    /\ websocket = "open"
    /\ SentOf(turn) = <<ErrorSignal(turn, "Empty message")>>

(***************************************************************************)
(* C7. In the signals sent, no fragment of a turn follows that turn's done *)
(* signal, and between a fragment of one turn and a fragment of a later    *)
(* turn lies the done signal of the earlier turn.                          *)
(***************************************************************************)
C7_DoneSeparatesTurns ==
    \A i \in 1..Len(sent) : \A j \in (i + 1)..Len(sent) :
        /\ (sent[i].type = "done" /\ sent[j].type = "message")
              => sent[j].turn > sent[i].turn
        /\ (sent[i].type = "message" /\ sent[j].type = "message"
                /\ sent[i].turn # sent[j].turn)
              => \E k \in (i + 1)..(j - 1) : sent[k] = DoneSignal(sent[i].turn)

C7_Witness ==
    \E i \in 1..Len(sent) : \E j \in (i + 1)..Len(sent) :
        /\ sent[i].type = "message"
        /\ sent[j].type = "message"
        /\ sent[i].turn # sent[j].turn

(***************************************************************************)
(* C8. The fragments forwarded to the caller in a turn are the fragments   *)
(* the stream has delivered so far, in the same order, none dropped or     *)
(* duplicated: each is forwarded before the next line is read.  Only the   *)
(* fragment whose send raised on a closed transport is missing.            *)
(***************************************************************************)
C8_FragmentsForwardedInOrder ==
    turn > 0 =>
        IF outcome = "send_failed"
        THEN Forwarded(turn) = SubSeq(produced, 1, Len(produced) - 1)
        ELSE Forwarded(turn) = produced

C8_Witness ==
    /\ pc = "Streaming"
    /\ Len(produced) = 2
    /\ produced[1] # produced[2]
    /\ Forwarded(turn) = produced

(***************************************************************************)
(* C9. A unit is taken from the transport only at the receive, when the    *)
(* previous turn is over; and the signals are sent in the order of the     *)
(* questions.                                                              *)
(***************************************************************************)
C9_TurnsSequential ==
    [][ /\ turn' # turn => (pc = "Await" /\ outcome # "active" /\ turn' = turn + 1)
        /\ \A i \in 1..Len(sent') : \A j \in i..Len(sent') :
              sent'[i].turn <= sent'[j].turn ]_vars

C9_Witness ==
    /\ turn = 2
    /\ pc = "Streaming"
    /\ Len(chat_history) = 1
    /\ Count(1, "done") = 1

(***************************************************************************)
(* C10. Once a send or a receive has raised because the transport is       *)
(* closed, the session attempts no further send.                           *)
(***************************************************************************)
C10_NoSendAfterDisconnect == ~late_send

(***************************************************************************)
(* C11. A turn cancelled by the transport closing before its done signal   *)
(* was delivered (during retrieval, during generation, or with the whole   *)
(* answer accumulated but the done not yet sent) appends no ChatTurn, not  *)
(* even one carrying the partial answer.                                   *)
(***************************************************************************)
Cancelled == turn > 0 /\ websocket = "closed" /\ Count(turn, "done") = 0

C11_CancelledTurnNotPersisted == Cancelled => Appended = 0

\* fragments had been accumulated when the transport closed, and the session
\* has ended at the failed done
C11_Witness ==
    /\ Cancelled
    /\ pc = "Closed"
    /\ outcome = "done_failed"
    /\ full_response # <<>>

(***************************************************************************)
(* C12. With the transport closed, an outstanding upstream call is not     *)
(* followed by a further one: the session does not go from the embedding   *)
(* call to the search, from the search to the generation call, or from     *)
(* the generation call to reading its stream.                              *)
(***************************************************************************)
C12_UpstreamCancelledOnDisconnect ==
    [][websocket = "closed" =>
          /\ ~(pc = "Embed" /\ pc' = "Search")
          /\ ~(pc = "Search" /\ pc' = "Generate")
          /\ ~(pc = "Generate" /\ pc' = "Streaming")]_allVars

(***************************************************************************)
(* C13. Prompt assembly: with passages retrieved, the generation prompt is *)
(* the context header, the passages' texts in the order returned with a    *)
(* blank line between neighbours, the literal question and the closing     *)
(* instruction; with none retrieved it is the bare question and nothing    *)
(* else.                                                                   *)
(***************************************************************************)
ContextParts(chunks) ==
    [i \in 1..(2 * Len(chunks) - 1) |->
        IF i % 2 = 1 THEN chunks[(i + 1) \div 2].chunk_text ELSE "\n\n"]

EmptyRetrieval == "search" \in calls /\ db.tx = "ok" /\ similar_chunks = <<>>

C15_MalformedFragmentSkipped ==
    [][(lines' = lines + 1 /\ produced' = produced) =>
          /\ pc' = "Streaming"
          /\ sent' = sent
          /\ outcome' = outcome]_allVars

(***************************************************************************)
(* Observations of the vector store.                                       *)
(***************************************************************************)
\* the similarity of the row at position i to the query of the last search
SimOf(i) == Similarity(vector_chunks[i].embedding, searched.query)

\* the positions the last search returned
Picked == {searched.picked[j] : j \in DOMAIN searched.picked}

\* the rows of a table that do not belong to document d
Others(table, d) == SelectSeq(table, LAMBDA row : row.document_id # d)

(***************************************************************************)
(* C16. Whatever the table, the query, the limit and the threshold, a      *)
(* search returns at most `limit` passages, each a stored chunk with its   *)
(* similarity, each of similarity at least the threshold; a chunk whose    *)
(* similarity is at least the threshold, equal to it included, is left out *)
(* only when `limit` passages were returned; and with no chunk clearing    *)
(* the threshold the result is the empty list, not an error.               *)
(***************************************************************************)
C16_SearchBounded ==
    searched.status # "none" =>
        /\ searched.status = "ok"
        /\ Len(searched.chunks) <= searched.limit
        /\ Len(searched.chunks) = Len(searched.picked)
        /\ \A j \in DOMAIN searched.chunks :
              /\ searched.picked[j] \in DOMAIN vector_chunks
              /\ searched.chunks[j] =
                     <<vector_chunks[searched.picked[j]].chunk_text,
                       SimOf(searched.picked[j])>>
              /\ searched.chunks[j][2] >= searched.threshold
        /\ Len(searched.chunks) < searched.limit =>
              \A i \in DOMAIN vector_chunks :
                  SimOf(i) >= searched.threshold => i \in Picked

\* a chunk whose similarity is exactly the threshold was returned
C16_Witness ==
    /\ searched.status = "ok"
    /\ \E j \in DOMAIN searched.chunks :
          searched.chunks[j][2] = searched.threshold

(***************************************************************************)
(* C17. A search returns the `limit` closest qualifying chunks by          *)
(* descending similarity, and among chunks of equal similarity the ones    *)
(* inserted earlier come first and are the ones kept at the cut-off.       *)
(***************************************************************************)
Before(i, k) ==
    \/ SimOf(i) > SimOf(k)
    \/ SimOf(i) = SimOf(k) /\ i < k

C17_SearchDeterministic ==
    searched.status = "ok" =>
        /\ \A i, j \in DOMAIN searched.picked :
              i < j => Before(searched.picked[i], searched.picked[j])
        /\ \A k \in DOMAIN vector_chunks :
              (SimOf(k) >= searched.threshold /\ k \notin Picked) =>
                  \A i \in Picked : Before(i, k)

(***************************************************************************)
(* C18. A search with limit at least 1 whose query is the vector of a      *)
(* stored chunk returns that chunk's passage first, with similarity 1.     *)
(***************************************************************************)
C18_StoredChunkIsTop ==
    (searched.status = "ok" /\ searched.limit >= 1) =>
        \A i \in DOMAIN vector_chunks :
            vector_chunks[i].embedding = searched.query =>
                /\ Len(searched.chunks) >= 1
                /\ searched.chunks[1] = <<vector_chunks[i].chunk_text, 100>>

(***************************************************************************)
(* C18, amended.  ... returns first, with similarity 1, a chunk stored     *)
(* with that vector; it is that very chunk when no other stored chunk has  *)
(* the same vector.                                                        *)
(***************************************************************************)
C18_SomeEqualChunkIsTop ==
    (searched.status = "ok" /\ searched.limit >= 1) =>
        LET Equal == {i \in DOMAIN vector_chunks :
                         vector_chunks[i].embedding = searched.query}
        IN  Equal # {} =>
                /\ Len(searched.picked) >= 1
                /\ searched.picked[1] \in Equal
                /\ searched.chunks[1][2] = 100
                /\ searched.chunks[1][1] =
                       vector_chunks[searched.picked[1]].chunk_text

\* the query is the vector of one stored chunk, stored after a chunk with
\* another vector, and that chunk came first
C18_Witness ==
    /\ searched.status = "ok"
    /\ Len(vector_chunks) >= 2
    /\ Len(searched.picked) >= 1
    /\ searched.picked[1] > 1
    /\ \A i \in DOMAIN vector_chunks :
          vector_chunks[i].embedding = searched.query <=> i = searched.picked[1]

(***************************************************************************)
(* C19. Once the chunks of a document have been deleted no search returns  *)
(* a passage of that document, and the deletion leaves the chunks of       *)
(* every other document as they were.                                      *)
(***************************************************************************)
C19_DeletedNeverReturned ==
    [][/\ searched'.status = "ok" =>
             \A j \in DOMAIN searched'.picked :
                 vector_chunks'[searched'.picked[j]].document_id \notin deleted'
       /\ index_call'.op = "delete" =>
             /\ index_call'.document_id \in deleted'
             /\ Others(vector_chunks', index_call'.document_id)
                    = Others(vector_chunks, index_call'.document_id)]_allVars

\* a deletion removed chunks, and a search after it returned chunks of
\* another document
C19_Witness ==
    /\ index_call.op = "delete"
    /\ index_call.removed > 0
    /\ searched.status = "ok"
    /\ Len(searched.picked) > 0

(***************************************************************************)
(* C20. Deleting the chunks of a document succeeds and leaves no chunk of  *)
(* it; for a document that has none (its chunks never stored, or deleted   *)
(* before) it succeeds too and changes nothing, so deleting twice ends as  *)
(* deleting once.                                                          *)
(***************************************************************************)
C20_DeleteIdempotent ==
    [][index_call'.op = "delete" =>
          /\ index_call'.status = "ok"
          /\ \A i \in DOMAIN vector_chunks' :
                vector_chunks'[i].document_id # index_call'.document_id
          /\ (\A i \in DOMAIN vector_chunks :
                 vector_chunks[i].document_id # index_call'.document_id)
                => vector_chunks' = vector_chunks]_allVars

\* the chunks of a document were deleted a second time, with others stored
C20_Witness ==
    /\ index_call.op = "delete"
    /\ index_call.repeated
    /\ index_call.removed = 0
    /\ index_call.status = "ok"
    /\ vector_chunks # <<>>

(***************************************************************************)
(* C25. An absent credential is surfaced before the application serves:    *)
(* with OPENROUTER_API_KEY unset no session receives a question, so no     *)
(* turn ends because of the absent configuration.                          *)
(***************************************************************************)
C25_ConfigurationErrorPreflight ==
    ~api_key => (turn = 0 /\ outcome # "no_api_key")

(***************************************************************************)
(* C27. The chunks of each document carry the indices 0..n-1 in the order  *)
(* stored, no two chunks share (document_id, chunk_index), and a step      *)
(* leaves the chunks of a document as they are or removes all of them.     *)
(***************************************************************************)
RowsIn(table, d) == SelectSeq(table, LAMBDA row : row.document_id = d)

DenseIndices(table) ==
    /\ \A d \in 1..MaxDocs :
          \A j \in 1..Len(RowsIn(table, d)) :
              RowsIn(table, d)[j].chunk_index = j - 1
    /\ \A i, j \in DOMAIN table :
          (/\ table[i].document_id = table[j].document_id
           /\ table[i].chunk_index = table[j].chunk_index) => i = j

C27_ChunkIndicesDense ==
    [][/\ DenseIndices(vector_chunks')
       /\ \A d \in 1..MaxDocs :
             \/ RowsIn(vector_chunks, d) = <<>>
             \/ RowsIn(vector_chunks', d) = <<>>
             \/ RowsIn(vector_chunks', d) = RowsIn(vector_chunks, d)]_allVars

\* a document with two chunks, stored after the chunks of an earlier one
\* were deleted
C27_Witness ==
    /\ deleted # {}
    /\ \E d \in 1..MaxDocs :
          /\ d \notin deleted
          /\ Len(RowsIn(vector_chunks, d)) >= 2
          /\ RowsIn(vector_chunks, d)[2].chunk_index = 1

(***************************************************************************)
(* C30. A connection whose token resolves to no user is closed before any  *)
(* unit is received: nothing is sent on it, no embedding, search or        *)
(* generation call is made for it, no ChatTurn is appended, and its        *)
(* handle is released.                                                     *)
(***************************************************************************)
C30_UnauthorizedNeverSession ==
    user = 0 =>
        /\ pc \in {"Auth", "Closed"}
        /\ turn = 0
        /\ calls = {}
        /\ sent = <<>>
        /\ chat_history = <<>>
        /\ pc = "Closed" => (websocket = "closed" /\ ~db.open)

\* the token resolved to no user and the connection has been closed
C30_Witness ==
    /\ user = 0
    /\ pc = "Closed"
    /\ websocket = "closed"
    /\ turn = 0

(***************************************************************************)
(* C29. Once the generation stream has ended, by its end-of-stream marker  *)
(* or by running out without one, no further line is consumed and no       *)
(* further fragment accumulated or forwarded in the turn; both ends are a  *)
(* successful completion: no error signal, the done signal is sent next,   *)
(* and when it was delivered the turn is appended unless the append        *)
(* itself fails.                                                           *)
(***************************************************************************)
C29_StreamEndIsFinal ==
    [][/\ ended # "none" =>
             /\ lines' = lines
             /\ produced' = produced
             /\ full_response' = full_response
             /\ Count(turn, "message")' = Count(turn, "message")
       /\ ended' # "none" =>
             /\ pc' \in {"SendDone", "Persist"}
             /\ outcome' = "active"
             /\ Count(turn, "error")' = 0
             /\ pc' = "Persist" => CleanDone(turn)'
       /\ (pc = "Persist" /\ pc' # "Persist" /\ ended # "none" /\ ~fault') =>
             /\ outcome' = "persisted"
             /\ Len(chat_history') = hist0' + 1]_allVars

\* the stream ran out without the marker after a fragment, and the done
\* signal has been delivered
C29_Witness ==
    /\ ended = "eof"
    /\ pc = "Persist"
    /\ produced # <<>>
    /\ CleanDone(turn)

(***************************************************************************)
(* C23. A call of get_embeddings that returns, returns one vector per      *)
(* text, the i-th being the embedding of the i-th text.                    *)
(***************************************************************************)
C23_OneVectorPerText ==
    embedded.status = "ok" =>
        /\ Len(embedded.value) = Len(texts)
        /\ \A i \in DOMAIN texts : embedded.value[i] = EmbeddingOf(texts[i])

(***************************************************************************)
(* C24. get_embeddings called with the empty list, key and base URL being  *)
(* configured, returns the empty list and sends no request.                *)
(***************************************************************************)
C24_EmptyBatchNoRequest ==
    (texts = <<>> /\ api_key /\ base_url /\ embedded.status # "none") =>
        /\ embedded = [status |-> "ok", value |-> <<>>]
        /\ requests = 0

(***************************************************************************)
(* C21. store_chunks is atomic for its batch: a search, whenever it runs,  *)
(* finds over the rows of a store_chunks call either all of them or none,  *)
(* and none when the call failed.                                          *)
(***************************************************************************)
\* the rows of document d the last search ran over
FoundOf(d) == {row \in found.rows : row.document_id = d}

C21_UpsertAtomic ==
    found.status = "ok" =>
        \A u \in Range(upserts) :
            /\ FoundOf(u.document_id) \in {{}, Range(u.rows)}
            /\ u.status = "error" => FoundOf(u.document_id) = {}

\* a search ran while a batch of two rows was added and not yet committed
C21_Witness ==
    /\ upload.pc = "StoreCommit"
    /\ Len(upload.pending) >= 2
    /\ found.status = "ok"
    /\ found.during
    /\ FoundOf(upload.document_id) = {}

(***************************************************************************)
(* C22. A search that starts after a store_chunks call has returned runs   *)
(* over all the rows of that call, unless the document was deleted, also   *)
(* when the searching session opened its handle before the upload.         *)
(***************************************************************************)
C22_ReadAfterWrite ==
    found.status = "ok" =>
        \A d \in found.returned : Range(UpsertOf(d).rows) \subseteq found.rows

\* a session that began its transaction on the empty table has searched
\* after a call that stored rows had returned
C22_Witness ==
    /\ handle.open
    /\ handle.snapshot = <<>>
    /\ found.status = "ok"
    /\ \E d \in found.returned :
          /\ UpsertOf(d).rows # <<>>
          /\ Range(UpsertOf(d).rows) \subseteq found.rows

(***************************************************************************)
(* C28. A text that is empty or whitespace gives no chunk, and the upload  *)
(* of such a text ends normally with zero chunks, not with an error.       *)
(***************************************************************************)
C28_BlankIsNothingToIngest ==
    (upload.pc = "done" /\ Strip(upload.text) = <<>>) =>
        /\ split_text(upload.text) = <<>>
        /\ upload.status = "200"
        /\ upload.chunk_count = 0

(***************************************************************************)
(* C26. get_chat_history returns, of the rows of the user it is called     *)
(* for, the `limit` rows appended last (all of them when there are fewer), *)
(* in the order they were appended.                                        *)
(***************************************************************************)
\* the last n elements of a sequence
LastN(seq, n) == SubSeq(seq, Len(seq) - Min(n, Len(seq)) + 1, Len(seq))

C26_ListRecentTurns ==
    listing.status = "ok" =>
        listing.rows = LastN(listing.appended, listing.limit)

(***************************************************************************)
(* C31. The handle of a connection is closed by the step that ends the     *)
(* session, whichever way it ends, and at no other step; once it is closed *)
(* the session does nothing more, so the handle is closed once and is not  *)
(* used afterwards.                                                        *)
(***************************************************************************)
C31_HandleReleasedOnce ==
    [][/\ (pc # "Closed" /\ pc' = "Closed") => (db.open /\ ~db'.open)
       /\ (db.open /\ ~db'.open) => (pc # "Closed" /\ pc' = "Closed")
       /\ ~db.open => (pc = "Closed" /\ UNCHANGED vars)]_allVars

\* a session that was authorized and answered a question has ended
C31_Witness ==
    /\ pc = "Closed"
    /\ ~db.open
    /\ chat_history # <<>>

(***************************************************************************)
(* C32. Whenever no upload is under way, the chunk_count of every Document *)
(* record is the number of rows stored for that document.                  *)
(***************************************************************************)
C32_ChunkCountIsStored ==
    upload.pc \in {"idle", "done"} =>
        \A d \in DOMAIN documents :
            documents[d].chunk_count = Len(RowsOf(d))

(***************************************************************************)
(* C33. Every row of vector_chunks refers to a Document record that        *)
(* exists, however uploads and deletions interleave.                       *)
(***************************************************************************)
C33_ChunksHaveDocument ==
    \A i \in DOMAIN vector_chunks :
        vector_chunks[i].document_id \in DOMAIN documents

\* a deletion was overtaken by the upload of the document it deletes: the
\* rows were committed after the deletion of the rows and the record stays
C33_Witness ==
    /\ removal.pc = "done"
    /\ removal.status = "500"
    /\ RowsOf(removal.document_id) # <<>>
    /\ removal.document_id \in DOMAIN documents

(***************************************************************************)
(* C34. An upload that ended because get_embeddings raised has created no  *)
(* Document record and has called store_chunks for no row.                 *)
(***************************************************************************)
C34_EmbeddingFailureLeavesStores ==
    upload.failed = "embed" =>
        /\ upload.status = "500"
        /\ next_document = upload.ids0
        /\ Len(upserts) = upload.upserts0
        /\ upload.document_id = 0
        /\ upload.pending = <<>>

\* an upload of a text with two chunks ended at the embedding call
C34_Witness ==
    /\ upload.pc = "done"
    /\ upload.failed = "embed"
    /\ Len(split_text(upload.text)) >= 2

=============================================================================
